---- MODULE Spec2Model ----
(***************************************************************************)
(* netopeer2-server (src/server/main.c): the session lifecycle and the     *)
(* datastore lock registry.  Two threads (main: the accept loop and the    *)
(* lifecycle sequencing; process_loop: the poll worker) and asynchronous   *)
(* signal delivery are interleaved at the granularity of the library calls *)
(* in which the code can block.                                            *)
(***************************************************************************)
EXTENDS Integers, FiniteSets, Sequences, TLC

\* ------------------------------------------------------------------ bounds
\* number of session handles the transport layer hands out in one execution
MaxSessions == 2

\* --------------------------------------------------------------- constants
NULL == 0
LOOP_CONTINUE == 0
LOOP_RESTART == 1
LOOP_STOP == 2
EXIT_SUCCESS == 0
EXIT_FAILURE == 1

Sessions == 1..MaxSessions
Datastores == {"running", "startup", "candidate"}
TermSignals == {"SIGINT", "SIGTERM", "SIGQUIT", "SIGABRT"}
RestartSignals == {"SIGHUP", "SIGUSR1"}
\* the signals main() installs signal_handler for
Signals == TermSignals \cup RestartSignals

VARIABLES
    control,    \* volatile enum LOOPCTRL control
    quit,       \* static int quit of signal_handler
    exit_code,  \* <<>> while the process lives, <<status>> once it has ended
    ret,        \* main's local ret
    init_ok,    \* whether the last server_init() succeeded
    init_failed,\* whether some server_init() of this process has failed
    pc_main,    \* position of the main thread
    pc_worker,  \* position of the process_loop thread
    ncs_main,   \* main's local ncs (NULL where the code no longer reads it)
    rc,         \* process_loop's local rc (0 where the code no longer reads it)
    ps,         \* np2srv.nc_ps: the sessions registered for polling
    dslock,     \* struct np2srv_dslock dslock
    status,     \* per session handle: unborn, running, invalid, freed
    origin,     \* per session handle: none, accept (nc_accept), channel
    data,       \* per session handle: its data pointer is set
    binding,    \* per session handle: struct np2_sessions none, live, freed
    handle,     \* per session handle: s->srs none, open, closed
    binds,      \* number of successful connect_ds() per session
    teardowns,  \* number of free_ds() bodies run per session
    closes,     \* number of sr_session_stop() on the session's handle
    last,       \* the last call made and what it returned
    seen        \* the signal reactions observed so far (SigSpec only)

vars == <<control, quit, exit_code, ret, init_ok, init_failed, pc_main,
          pc_worker, ncs_main, rc, ps, dslock, status, origin, data, binding,
          handle, binds, teardowns, closes, last, seen>>

sigvars == <<control, quit, exit_code>>
runvars == <<ret, init_ok, init_failed>>
mainvars == <<runvars, pc_main, ncs_main>>
sessvars == <<status, origin, data, binding, handle, binds, teardowns, closes>>

Alive == exit_code = <<>>

\* ---------------------------------------------------------- signal_handler
\* signal_handler without the exit of the second attempt
signal_handler_noexit(sig, ctl, q) ==
    IF sig \in TermSignals
    THEN [control |-> LOOP_STOP, quit |-> 1, exit |-> <<>>]
    ELSE [control |-> LOOP_RESTART, quit |-> q, exit |-> <<>>]

\* signal_handler taking the second attempt from the flag instead of quit
signal_handler_byflag(sig, ctl, q) ==
    IF sig \in TermSignals
    THEN IF ctl # LOOP_STOP
         THEN [control |-> LOOP_STOP, quit |-> 1, exit |-> <<>>]
         ELSE [control |-> ctl, quit |-> q, exit |-> <<EXIT_FAILURE>>]
    ELSE [control |-> LOOP_RESTART, quit |-> q, exit |-> <<>>]

\* signal_handler whose first termination signal leaves a pending restart
\* request in the flag
signal_handler_keeprestart(sig, ctl, q) ==
    IF sig \in TermSignals
    THEN IF q = 0
         THEN [control |-> IF ctl = LOOP_RESTART THEN ctl ELSE LOOP_STOP,
               quit |-> 1, exit |-> <<>>]
         ELSE [control |-> ctl, quit |-> q, exit |-> <<EXIT_FAILURE>>]
    ELSE IF sig \in RestartSignals
         THEN [control |-> LOOP_RESTART, quit |-> q, exit |-> <<>>]
         ELSE [control |-> ctl, quit |-> q, exit |-> <<EXIT_FAILURE>>]

\* The reaction to signal sig with the flag at ctl and the static quit at q.
signal_handler(sig, ctl, q) ==
    IF sig \in TermSignals
    THEN IF q = 0
         THEN [control |-> LOOP_STOP, quit |-> 1, exit |-> <<>>]
         ELSE [control |-> ctl, quit |-> q, exit |-> <<EXIT_FAILURE>>]
    ELSE IF sig \in RestartSignals
         THEN [control |-> LOOP_RESTART, quit |-> q, exit |-> <<>>]
         ELSE [control |-> ctl, quit |-> q, exit |-> <<EXIT_FAILURE>>]

\* -------------------------------------------------------------- lock table
\* np2srv_clean_dslock assigning in its first test instead of comparing: the
\* running slot is cleared whoever holds it
np2srv_clean_dslock_assign(dl, ncs) ==
    [d \in Datastores |->
        IF d = "running" \/ dl[d] = ncs THEN NULL ELSE dl[d]]

\* np2srv_clean_dslock without its third test
np2srv_clean_dslock_two(dl, ncs) ==
    [d \in Datastores |->
        IF d # "candidate" /\ dl[d] = ncs THEN NULL ELSE dl[d]]

\* np2srv_clean_dslock(ncs): the table after the three comparisons
np2srv_clean_dslock(dl, ncs) ==
    [d \in Datastores |-> IF dl[d] = ncs THEN NULL ELSE dl[d]]

\* lock operation of a session on a datastore (operations.c, not in src/)
dslock_acquire(dl, d, s) ==
    IF dl[d] = NULL THEN [dl EXCEPT ![d] = s] ELSE dl

dslock_acquire_ret(dl, d, s) == dl[d] \in {NULL, s}

\* unlock operation of a session on a datastore (operations.c, not in src/)
dslock_release(dl, d, s) ==
    IF dl[d] = s THEN [dl EXCEPT ![d] = NULL] ELSE dl

\* ------------------------------------------------------------------ free_ds
RECURSIVE clean_each(_, _)
\* np2srv_clean_dslock applied for every session of S in turn
clean_each(dl, S) ==
    IF S = {} THEN dl
    ELSE LET s == CHOOSE x \in S : \A y \in S : x <= y
         IN  clean_each(np2srv_clean_dslock(dl, s), S \ {s})

\* the sessions of S whose data pointer is set: free_ds(ptr) acts on them
Bound(S) == {s \in S : data[s]}

\* free_ds(data) for every session of S
free_ds(S) ==
    /\ handle' = [s \in Sessions |->
                    IF s \in Bound(S) /\ handle[s] # "none" THEN "closed"
                    ELSE handle[s]]
    /\ closes' = [s \in Sessions |->
                    IF s \in Bound(S) /\ handle[s] # "none" THEN closes[s] + 1
                    ELSE closes[s]]
    /\ dslock' = clean_each(dslock, Bound(S))
    /\ binding' = [s \in Sessions |->
                    IF s \in Bound(S) THEN "freed" ELSE binding[s]]
    /\ teardowns' = [s \in Sessions |->
                    IF s \in Bound(S) THEN teardowns[s] + 1 ELSE teardowns[s]]

\* free_ds with free(s) moved before np2srv_clean_dslock(s->ncs)
free_ds_steps_freefirst(h, dl, b, s) ==
    LET h1 == IF h[s] # "none" THEN [h EXCEPT ![s] = "closed"] ELSE h
        b1 == [b EXCEPT ![s] = "freed"]
    IN  (IF h[s] # "none"
         THEN << [call |-> "sr_session_stop", handle |-> h1,
                  dslock |-> dl, binding |-> b] >>
         ELSE << >>)
        \o << [call |-> "free", handle |-> h1,
               dslock |-> dl, binding |-> b1],
              [call |-> "np2srv_clean_dslock", handle |-> h1,
               dslock |-> np2srv_clean_dslock(dl, s), binding |-> b1] >>

\* the statements of free_ds(ptr) for the data of one session s, in program
\* order, each with the state it leaves:
\*   if (s->srs) sr_session_stop(s->srs); np2srv_clean_dslock(s->ncs); free(s)
free_ds_steps(h, dl, b, s) ==
    LET h1 == IF h[s] # "none" THEN [h EXCEPT ![s] = "closed"] ELSE h
        dl1 == np2srv_clean_dslock(dl, s)
    IN  (IF h[s] # "none"
         THEN << [call |-> "sr_session_stop", handle |-> h1,
                  dslock |-> dl, binding |-> b] >>
         ELSE << >>)
        \o << [call |-> "np2srv_clean_dslock", handle |-> h1,
               dslock |-> dl1, binding |-> b],
              [call |-> "free", handle |-> h1,
               dslock |-> dl1, binding |-> [b EXCEPT ![s] = "freed"]] >>

\* nc_session_free(s, free_ds) for every session of S
nc_session_free(S) ==
    /\ status' = [s \in Sessions |-> IF s \in S THEN "freed" ELSE status[s]]
    /\ free_ds(S)

\* the datastores whose slot a session of S with a binding holds
HeldBy(S) == {d \in Datastores : dslock[d] \in Bound(S)}

\* the handle the transport layer creates next
Fresh == {s \in Sessions : status[s] = "unborn"}
NewSession == CHOOSE s \in Fresh : \A t \in Fresh : s <= t
\* handles already promised to a channel that process_loop is about to accept
Promised == IF pc_worker = "result" /\ rc = 5 THEN 1 ELSE 0

NoCall == [op |-> "none"]

\* --------------------------------------------------------------------- Init
Init ==
    /\ control = LOOP_CONTINUE
    /\ quit = 0
    /\ exit_code = <<>>
    /\ ret = EXIT_SUCCESS
    /\ init_ok = FALSE
    /\ init_failed = FALSE
    /\ pc_main = "init"
    /\ pc_worker = "none"
    /\ ncs_main = NULL
    /\ rc = 0
    /\ ps = {}
    /\ dslock = [d \in Datastores |-> NULL]
    /\ status = [s \in Sessions |-> "unborn"]
    /\ origin = [s \in Sessions |-> "none"]
    /\ data = [s \in Sessions |-> FALSE]
    /\ binding = [s \in Sessions |-> "none"]
    /\ handle = [s \in Sessions |-> "none"]
    /\ binds = [s \in Sessions |-> 0]
    /\ teardowns = [s \in Sessions |-> 0]
    /\ closes = [s \in Sessions |-> 0]
    /\ last = NoCall
    /\ seen = {}

\* ------------------------------------------------------------------ signals
\* a signal is delivered and signal_handler runs
Signal ==
    /\ Alive
    /\ \E sig \in Signals :
         LET r == signal_handler(sig, control, quit) IN
         /\ control' = r.control
         /\ quit' = r.quit
         /\ exit_code' = r.exit
         /\ last' = [op |-> "signal", term |-> sig \in TermSignals]
    /\ UNCHANGED <<mainvars, pc_worker, rc, ps, dslock, sessvars, seen>>

\* a signal is delivered and signal_handler runs; the reaction is recorded
ObservedSignal ==
    /\ Alive
    /\ \E sig \in Signals :
         LET r == signal_handler(sig, control, quit) IN
         /\ control' = r.control
         /\ quit' = r.quit
         /\ exit_code' = r.exit
         /\ last' = [op |-> "signal", sig |-> sig]
         /\ seen' = seen \cup {[sig |-> sig, from |-> control, q |-> quit,
                                to |-> r.control, exit |-> r.exit]}
    /\ UNCHANGED <<mainvars, pc_worker, rc, ps, dslock, sessvars>>

\* ---------------------------------------------------------------- main()
\* server_init() fails: goto cleanup
ServerInitFail ==
    /\ Alive /\ pc_main = "init"
    /\ ret' = EXIT_FAILURE
    /\ init_ok' = FALSE
    /\ init_failed' = TRUE
    /\ pc_main' = "cleanup"
    /\ last' = NoCall
    /\ UNCHANGED <<sigvars, ncs_main, pc_worker, rc, ps, dslock, sessvars,
                   seen>>

\* server_init() succeeds (np2srv.nc_ps = nc_ps_new()), pthread_create
ServerInitOk ==
    /\ Alive /\ pc_main = "init"
    /\ init_ok' = TRUE
    /\ ps' = {}
    /\ pc_worker' = "loop"
    /\ pc_main' = "loop"
    /\ last' = NoCall
    /\ UNCHANGED <<sigvars, ret, init_failed, ncs_main, rc, dslock, sessvars,
                   seen>>

\* while (control == LOOP_CONTINUE) of the accept loop
MainCheck ==
    /\ Alive /\ pc_main = "loop"
    /\ pc_main' = IF control = LOOP_CONTINUE THEN "accept" ELSE "join"
    /\ last' = NoCall
    /\ UNCHANGED <<sigvars, runvars, ncs_main, pc_worker, rc, ps, dslock,
                   sessvars, seen>>

\* nc_accept(500, &ncs) returns 1 with a new session
AcceptSession ==
    /\ Alive /\ pc_main = "accept"
    /\ Cardinality(Fresh) > Promised
    /\ ncs_main' = NewSession
    /\ status' = [status EXCEPT ![NewSession] = "running"]
    /\ origin' = [origin EXCEPT ![NewSession] = "accept"]
    /\ pc_main' = "connect"
    /\ last' = NoCall
    /\ UNCHANGED <<sigvars, runvars, pc_worker, rc, ps, dslock, data,
                   binding, handle, binds, teardowns, closes, seen>>

\* nc_accept(500, &ncs) returns 0 (timeout) or -1 (error): next iteration
AcceptNone ==
    /\ Alive /\ pc_main = "accept"
    /\ last' = NoCall
    /\ pc_main' = "loop"
    /\ UNCHANGED <<sigvars, runvars, ncs_main, pc_worker, rc, ps, dslock,
                   sessvars, seen>>

\* connect_ds(ncs) succeeds
ConnectOk ==
    /\ Alive /\ pc_main = "connect"
    /\ binding' = [binding EXCEPT ![ncs_main] = "live"]
    /\ handle' = [handle EXCEPT ![ncs_main] = "open"]
    /\ data' = [data EXCEPT ![ncs_main] = TRUE]
    /\ binds' = [binds EXCEPT ![ncs_main] = @ + 1]
    /\ pc_main' = "add"
    /\ last' = NoCall
    /\ UNCHANGED <<sigvars, runvars, ncs_main, pc_worker, rc, ps, dslock,
                   status, origin, teardowns, closes, seen>>

\* the failure branch without its continue: the freed session is registered
ConnectFail_nocontinue ==
    /\ Alive /\ pc_main = "connect"
    /\ nc_session_free({ncs_main})
    /\ pc_main' = "add"
    /\ last' = [op |-> "bindfail", s |-> ncs_main]
    /\ UNCHANGED <<sigvars, runvars, ncs_main, pc_worker, rc,
                   ps, origin, data, binds, seen>>

\* connect_ds(ncs) fails (calloc or sr_session_start_user): the binding it
\* allocated is released inside connect_ds, the data pointer is never set;
\* main calls nc_session_free(ncs, free_ds) and continues
ConnectFail ==
    /\ Alive /\ pc_main = "connect"
    /\ nc_session_free({ncs_main})
    /\ pc_main' = "loop"
    /\ ncs_main' = NULL
    /\ last' = [op |-> "bindfail", s |-> ncs_main]
    /\ UNCHANGED <<sigvars, runvars, pc_worker, rc, ps, origin, data, binds,
                   seen>>

\* nc_ps_add_session(np2srv.nc_ps, ncs)
AddSession ==
    /\ Alive /\ pc_main = "add"
    /\ ps' = ps \cup {ncs_main}
    /\ ncs_main' = NULL
    /\ pc_main' = "loop"
    /\ last' = NoCall
    /\ UNCHANGED <<sigvars, runvars, pc_worker, rc, dslock, sessvars, seen>>

\* main going on to cleanup without pthread_join
Join_nowait ==
    /\ Alive /\ pc_main = "join"
    /\ pc_main' = "cleanup"
    /\ last' = NoCall
    /\ UNCHANGED <<sigvars, runvars, ncs_main, pc_worker, rc, ps, dslock,
                   sessvars, seen>>

\* pthread_join(tid, NULL)
Join ==
    /\ Alive /\ pc_main = "join"
    /\ pc_worker = "finished"
    /\ pc_worker' = "none"
    /\ pc_main' = "cleanup"
    /\ last' = NoCall
    /\ UNCHANGED <<sigvars, runvars, ncs_main, rc, ps, dslock, sessvars,
                   seen>>

\* the global teardown setting control back to LOOP_CONTINUE before goto
\* restart
Cleanup_reset ==
    /\ Alive /\ pc_main = "cleanup"
    /\ ps' = {}
    /\ IF control = LOOP_RESTART
       THEN /\ pc_main' = "init"
            /\ control' = LOOP_CONTINUE
            /\ exit_code' = exit_code
       ELSE /\ pc_main' = "done"
            /\ control' = control
            /\ exit_code' = <<ret>>
    /\ last' = NoCall
    /\ UNCHANGED <<quit, runvars, ncs_main, pc_worker, rc, dslock,
                   sessvars, seen>>

\* cleanup: global teardown (nc_ps_free releases the registry, not the
\* sessions in it), then goto restart or return ret
Cleanup ==
    /\ Alive /\ pc_main = "cleanup"
    /\ ps' = {}
    /\ IF control = LOOP_RESTART
       THEN /\ pc_main' = "init"
            /\ exit_code' = exit_code
       ELSE /\ pc_main' = "done"
            /\ exit_code' = <<ret>>
    /\ last' = NoCall
    /\ UNCHANGED <<control, quit, runvars, ncs_main, pc_worker, rc, dslock,
                   sessvars, seen>>

\* --------------------------------------------------------- process_loop()
\* the loop test leaving the loop on a restart request only
WorkerCheck_restartonly ==
    /\ Alive /\ pc_worker = "loop"
    /\ pc_worker' = IF control = LOOP_RESTART THEN "drain"
                    ELSE IF ps # {} THEN "poll" ELSE "idle"
    /\ last' = NoCall
    /\ UNCHANGED <<sigvars, mainvars, rc, ps, dslock, sessvars, seen>>

\* the loop body calling nc_ps_poll without the nc_ps_session_count test
WorkerCheck_nocount ==
    /\ Alive /\ pc_worker = "loop"
    /\ pc_worker' = IF control # LOOP_CONTINUE THEN "drain" ELSE "poll"
    /\ last' = NoCall
    /\ UNCHANGED <<sigvars, mainvars, rc, ps, dslock, sessvars, seen>>

\* while (control == LOOP_CONTINUE) and nc_ps_session_count()
WorkerCheck ==
    /\ Alive /\ pc_worker = "loop"
    /\ pc_worker' = IF control # LOOP_CONTINUE THEN "drain"
                    ELSE IF ps # {} THEN "poll" ELSE "idle"
    /\ last' = NoCall
    /\ UNCHANGED <<sigvars, mainvars, rc, ps, dslock, sessvars, seen>>

\* usleep(100); continue
WorkerIdle ==
    /\ Alive /\ pc_worker = "idle"
    /\ pc_worker' = "loop"
    /\ last' = NoCall
    /\ UNCHANGED <<sigvars, mainvars, rc, ps, dslock, sessvars, seen>>

\* nc_ps_poll returns 0 (timeout): no branch of the result test is taken
PollTimeout ==
    /\ Alive /\ pc_worker = "poll"
    /\ rc' = 0
    /\ pc_worker' = "loop"
    /\ last' = NoCall
    /\ UNCHANGED <<sigvars, mainvars, ps, dslock, sessvars, seen>>

\* nc_ps_poll returns -1 (error)
PollError ==
    /\ Alive /\ pc_worker = "poll"
    /\ rc' = -1
    /\ pc_worker' = "result"
    /\ last' = NoCall
    /\ UNCHANGED <<sigvars, mainvars, ps, dslock, sessvars, seen>>

\* nc_ps_poll processes a lock request of a polled session and returns 1: no
\* branch of the result test is taken
PollLock ==
    /\ Alive /\ pc_worker = "poll"
    /\ \E s \in ps, d \in Datastores :
         /\ status[s] = "running"
         /\ dslock' = dslock_acquire(dslock, d, s)
         /\ last' = [op |-> "lock", s |-> s, ds |-> d,
                     ret |-> dslock_acquire_ret(dslock, d, s)]
    /\ rc' = 0
    /\ pc_worker' = "loop"
    /\ UNCHANGED <<sigvars, mainvars, ps, sessvars, seen>>

\* nc_ps_poll processes an unlock request of a polled session and returns 1:
\* no branch of the result test is taken
PollUnlock ==
    /\ Alive /\ pc_worker = "poll"
    /\ \E s \in ps, d \in Datastores :
         /\ status[s] = "running"
         /\ dslock' = dslock_release(dslock, d, s)
         /\ last' = [op |-> "unlock", s |-> s, ds |-> d]
    /\ rc' = 0
    /\ pc_worker' = "loop"
    /\ UNCHANGED <<sigvars, mainvars, ps, sessvars, seen>>

\* nc_ps_poll finds a polled session terminated and returns 3
PollTerminated ==
    /\ Alive /\ pc_worker = "poll"
    /\ \E s \in ps :
         /\ status[s] = "running"
         /\ status' = [status EXCEPT ![s] = "invalid"]
    /\ rc' = 3
    /\ pc_worker' = "result"
    /\ last' = NoCall
    /\ UNCHANGED <<sigvars, mainvars, ps, dslock, origin, data, binding, handle,
                   binds, teardowns, closes, seen>>

\* nc_ps_poll finds a new SSH channel on a polled session and returns 5
PollChannel ==
    /\ Alive /\ pc_worker = "poll"
    /\ Fresh # {}
    /\ \E s \in ps : status[s] = "running"
    /\ rc' = 5
    /\ pc_worker' = "result"
    /\ last' = NoCall
    /\ UNCHANGED <<sigvars, mainvars, ps, dslock, sessvars, seen>>

\* the branch running free_ds on the terminated sessions itself and leaving
\* them registered
ClearInvalid_keep ==
    /\ Alive /\ pc_worker = "result"
    /\ rc \in {-1, 3}
    /\ LET dead == {s \in ps : status[s] # "running"} IN
         /\ nc_session_free(dead)
         /\ last' = [op |-> "clear", freed |-> dead, held |-> HeldBy(dead)]
    /\ rc' = 0
    /\ pc_worker' = "loop"
    /\ UNCHANGED <<sigvars, mainvars, ps, origin, data, binds, seen>>

\* the branch with nc_ps_clear(np2srv.nc_ps, 1, free_ds)
ClearInvalid_all ==
    /\ Alive /\ pc_worker = "result"
    /\ rc \in {-1, 3}
    /\ nc_session_free(ps)
    /\ ps' = {}
    /\ last' = [op |-> "clear", freed |-> ps, held |-> HeldBy(ps)]
    /\ rc' = 0
    /\ pc_worker' = "loop"
    /\ UNCHANGED <<sigvars, mainvars, origin, data, binds, seen>>

\* rc == -1 || rc == 3: nc_ps_clear(np2srv.nc_ps, 0, free_ds); usleep(250)
ClearInvalid ==
    /\ Alive /\ pc_worker = "result"
    /\ rc \in {-1, 3}
    /\ LET dead == {s \in ps : status[s] # "running"} IN
         /\ nc_session_free(dead)
         /\ ps' = ps \ dead
         /\ last' = [op |-> "clear", freed |-> dead, held |-> HeldBy(dead)]
    /\ rc' = 0
    /\ pc_worker' = "loop"
    /\ UNCHANGED <<sigvars, mainvars, origin, data, binds, seen>>

\* rc == 5: nc_ps_accept_ssh_channel(np2srv.nc_ps, &ncs);
\*          nc_ps_add_session(np2srv.nc_ps, ncs)
AcceptChannel ==
    /\ Alive /\ pc_worker = "result"
    /\ rc = 5
    /\ status' = [status EXCEPT ![NewSession] = "running"]
    /\ origin' = [origin EXCEPT ![NewSession] = "channel"]
    /\ ps' = ps \cup {NewSession}
    /\ rc' = 0
    /\ pc_worker' = "loop"
    /\ last' = [op |-> "channel", s |-> NewSession]
    /\ UNCHANGED <<sigvars, mainvars, dslock, data, binding, handle, binds,
                   teardowns, closes, seen>>

\* cleanup: nc_ps_clear(np2srv.nc_ps, 1, free_ds); nc_thread_destroy(); return
Drain ==
    /\ Alive /\ pc_worker = "drain"
    /\ nc_session_free(ps)
    /\ ps' = {}
    /\ pc_worker' = "finished"
    /\ last' = [op |-> "drain", freed |-> ps, held |-> HeldBy(ps)]
    /\ UNCHANGED <<sigvars, mainvars, rc, origin, data, binds, seen>>

MainStep ==
    \/ ServerInitFail
    \/ ServerInitOk
    \/ MainCheck
    \/ AcceptSession
    \/ AcceptNone
    \/ ConnectOk
    \/ ConnectFail
    \/ AddSession
    \/ Join
    \/ Cleanup

WorkerStep ==
    \/ WorkerCheck
    \/ WorkerIdle
    \/ PollTimeout
    \/ PollError
    \/ PollLock
    \/ PollUnlock
    \/ PollTerminated
    \/ PollChannel
    \/ ClearInvalid
    \/ AcceptChannel
    \/ Drain

Next ==
    \/ Signal
    \/ MainStep
    \/ WorkerStep

Spec == Init /\ [][Next]_vars

\* the poll worker without lock and unlock requests: no test of either thread
\* reads the lock table
LifecycleWorkerStep ==
    \/ WorkerCheck
    \/ WorkerIdle
    \/ PollTimeout
    \/ PollError
    \/ PollTerminated
    \/ PollChannel
    \/ ClearInvalid
    \/ AcceptChannel
    \/ Drain

LifecycleNext ==
    \/ Signal
    \/ MainStep
    \/ LifecycleWorkerStep

\* both threads are scheduled and every wait in them is bounded by a timeout,
\* so each thread eventually takes its next step; signals may or may not come
LifecycleSpec ==
    /\ Init /\ [][LifecycleNext]_vars
    /\ WF_vars(MainStep) /\ WF_vars(LifecycleWorkerStep)

\* signal_handler alone, applied to every signal in every state of the flag
\* and of quit that signal deliveries can produce
SigNext == ObservedSignal

SigSpec == Init /\ [][SigNext]_vars

\* ------------------------------------------------------------------ claims
\* what a recorded reaction did: ended the process, or left the flag at a value
Outcome(e) == IF e.exit # <<>> THEN <<"exit", e.exit>> ELSE <<"flag", e.to>>

\* the sessions whose free_ds body runs in this step
Torn == {s \in Sessions : teardowns'[s] > teardowns[s]}

\* C1: a slot held by a session changes only to unlocked, and only by that
\* session's unlock or that session's teardown; a lock request on a slot held
\* by another session returns false and leaves the three slots unchanged; a
\* lock request by the holder returns true and leaves them unchanged; a lock
\* request on an unlocked slot returns true and sets that slot only.
Thm_C1 ==
    [][ /\ \A d \in Datastores :
              (dslock[d] # NULL /\ dslock'[d] # dslock[d])
                => /\ dslock'[d] = NULL
                   /\ \/ /\ last'.op = "unlock"
                         /\ last'.s = dslock[d]
                         /\ last'.ds = d
                      \/ dslock[d] \in Torn
        /\ last'.op = "lock"
              => /\ last'.ret = (dslock[last'.ds] \in {NULL, last'.s})
                 /\ dslock' = IF dslock[last'.ds] = NULL
                              THEN [dslock EXCEPT ![last'.ds] = last'.s]
                              ELSE dslock
      ]_vars

\* a lock request has just been refused: the slot is held by another session,
\* which is still registered
Wit_C1 ==
    /\ last.op = "lock"
    /\ last.ret = FALSE
    /\ dslock[last.ds] \notin {NULL, last.s}
    /\ dslock[last.ds] \in ps

\* C2: when free_ds runs for a session, no slot references that session
\* afterwards, and the slots that were unlocked or held by a session whose
\* free_ds does not run in that step are unchanged.
Thm_C2 ==
    [][ Torn # {}
          => \A d \in Datastores :
                /\ dslock'[d] \notin Torn
                /\ (dslock[d] \notin Torn) => (dslock'[d] = dslock[d])
      ]_vars

\* a session holding two slots has just been torn down while another
\* session keeps holding the third
Wit_C2 ==
    /\ last.op \in {"clear", "drain"}
    /\ Cardinality(last.held) = 2
    /\ \E s \in last.freed : teardowns[s] = 1
    /\ \E d \in Datastores : dslock[d] # NULL /\ dslock[d] \notin last.freed

\* C3 as claimed: once main has joined the poll worker, every session whose
\* connect_ds succeeded has had free_ds run for it.
CE_C3 ==
    (pc_main = "cleanup" /\ init_ok)
        => \A s \in Sessions : binds[s] = teardowns[s] /\ binding[s] # "live"

\* C4: free_ds runs at most once for a session and its sysrepo session is
\* stopped at most once.
Thm_C4 == \A s \in Sessions : teardowns[s] <= 1 /\ closes[s] <= 1

\* one session was torn down when its termination was detected, another by
\* the drain
Wit_C4 ==
    /\ last.op = "drain"
    /\ \E s, u \in Sessions :
          /\ u \in last.freed /\ teardowns[u] = 1 /\ closes[u] = 1
          /\ s \notin last.freed /\ teardowns[s] = 1 /\ closes[s] = 1

\* a session that came from nc_accept and whose connect_ds has not succeeded
Unbound(s) == origin[s] = "accept" /\ binds[s] = 0

\* C5: a session whose connect_ds has not succeeded is in no slot and not
\* registered, and has no binding and no open sysrepo session; the step in
\* which connect_ds fails frees the session, leaves the registered sessions
\* and the three slots unchanged and takes main to the loop test.
Thm_C5 ==
    /\ [](\A s \in Sessions :
            Unbound(s) => /\ s \notin ps
                          /\ \A d \in Datastores : dslock[d] # s
                          /\ binding[s] # "live"
                          /\ handle[s] # "open")
    /\ [][ (pc_main = "connect" /\ last'.op = "bindfail")
            => /\ ps' = ps
               /\ dslock' = dslock
               /\ status'[ncs_main] = "freed"
               /\ teardowns' = teardowns
               /\ pc_main' = "loop"
      ]_vars

\* connect_ds has just failed for a session while another session is
\* registered and holds a slot
Wit_C5 ==
    /\ last.op = "bindfail"
    /\ Unbound(last.s) /\ status[last.s] = "freed"
    /\ pc_main = "loop"
    /\ \E d \in Datastores : dslock[d] \in ps

\* C8 as claimed: once main is back at its initialization with a restart
\* requested, it eventually waits in nc_accept again, unless a further signal
\* arrives or an initialization fails.
CE_C8 ==
    (Alive /\ pc_main = "init" /\ control = LOOP_RESTART /\ quit = 0)
        ~> (pc_main = "accept" \/ last.op = "signal" \/ ret = EXIT_FAILURE)

\* the process was ended by exit() in signal_handler
HandlerExit == ~Alive /\ pc_main # "done"

\* C9 as claimed: when main returns after a run whose server_init succeeded,
\* the exit status is success.
CE_C9 == (pc_main = "done" /\ init_ok) => exit_code = <<EXIT_SUCCESS>>

\* C9 as amended: after a first termination signal, unless a further signal
\* arrives, main returns; when it returns after a run whose server_init
\* succeeded the poll worker has drained and been joined, the registry is
\* released, and the exit status is success if no server_init of the process
\* has failed and failure otherwise.
Thm_C9 ==
    /\ (Alive /\ quit = 1 /\ control = LOOP_STOP)
          ~> (pc_main = "done" \/ control = LOOP_RESTART \/ HandlerExit)
    /\ [](pc_main = "done" /\ init_ok
            => /\ pc_worker = "none"
               /\ ps = {}
               /\ control = LOOP_STOP
               /\ exit_code = IF init_failed THEN <<EXIT_FAILURE>>
                                             ELSE <<EXIT_SUCCESS>>)

\* main has returned with success after a termination signal, and the drain
\* of the poll worker tore a session down
Wit_C9 ==
    /\ pc_main = "done" /\ init_ok /\ quit = 1
    /\ exit_code = <<EXIT_SUCCESS>>
    /\ last.op = "none"
    /\ \E s \in Sessions : teardowns[s] = 1

\* C10 as claimed: every registered session has a live binding made by a
\* successful connect_ds.
CE_C10 == \A s \in ps : binding[s] = "live" /\ binds[s] = 1

\* C11 as claimed: every slot is unlocked or references a session whose
\* binding is live.
CE_C11 ==
    \A d \in Datastores : dslock[d] = NULL \/ binding[dslock[d]] = "live"

\* C12 as claimed: when nc_ps_poll has returned 3, the branch that follows
\* removes every terminated session from the registered sessions and leaves
\* no slot referencing it.
CE_C12 ==
    [][ (pc_worker = "result" /\ rc = 3 /\ pc_worker' # "result")
          => \A s \in ps :
                status[s] = "invalid"
                  => /\ s \notin ps'
                     /\ \A d \in Datastores : dslock'[d] # s
      ]_vars

\* C13 as claimed: after nc_ps_poll has returned -1 the worker leaves its
\* loop instead of starting another iteration.
CE_C13 ==
    [][ (pc_worker = "result" /\ rc = -1 /\ pc_worker' # "result")
          => pc_worker' \in {"drain", "finished", "none"}
      ]_vars

\* C14: in the teardown of a session the sysrepo session is stopped first,
\* the slots are released next and the binding is freed last: when the slots
\* are released the store handle is no longer open and the binding is still
\* live, when the binding is freed no slot references the session, and a
\* teardown step leaves the session as the last of these statements does.
Thm_C14 ==
    /\ [](\A s \in Sessions :
            (data[s] /\ binding[s] = "live")
              => LET q == free_ds_steps(handle, dslock, binding, s) IN
                 /\ \A i \in 1..Len(q) :
                       /\ q[i].call = "sr_session_stop"
                             => i = 1 /\ handle[s] = "open"
                       /\ q[i].call = "np2srv_clean_dslock"
                             => /\ q[i].handle[s] # "open"
                                /\ q[i].binding[s] = "live"
                                /\ i = 1 => handle[s] = "none"
                       /\ q[i].call = "free"
                             => /\ i = Len(q)
                                /\ i > 1
                                /\ q[i-1].call = "np2srv_clean_dslock"
                                /\ q[i-1].binding[s] = "live"
                                /\ \A d \in Datastores : q[i-1].dslock[d] # s
                 /\ \E i \in 1..Len(q) : q[i].call = "np2srv_clean_dslock"
                 /\ q[Len(q)].call = "free")
    /\ [][ \A s \in Torn :
            LET q == free_ds_steps(handle, dslock, binding, s)
                f == q[Len(q)]
            IN  /\ handle'[s] = f.handle[s]
                /\ binding'[s] = f.binding[s]
                /\ \A d \in Datastores :
                      dslock[d] = s => dslock'[d] = f.dslock[d]
          ]_vars

\* a session whose sysrepo session was open and which held a slot has just
\* been torn down on termination, and another session is still registered
Wit_C14 ==
    /\ last.op = "clear"
    /\ last.held # {}
    /\ \E s \in last.freed :
          /\ handle[s] = "closed"
          /\ binding[s] = "freed"
          /\ closes[s] = 1
    /\ \E s \in ps : status[s] = "running" /\ binding[s] = "live"

\* C15 as claimed: when the worker has run its final nc_ps_clear, no session
\* is registered and no slot references a session that was registered.
CE_C15 ==
    [][ (pc_worker = "drain" /\ pc_worker' = "finished")
          => /\ ps' = {}
             /\ \A d \in Datastores : dslock'[d] \notin ps
      ]_vars

\* C16: the branch that removes terminated sessions returns the worker to the
\* loop test, and every registered session that has not terminated stays
\* registered and running with its binding, its store handle and the slots
\* it holds unchanged.
Thm_C16 ==
    [][ (pc_worker = "result" /\ rc \in {-1, 3} /\ pc_worker' # "result")
          => /\ pc_worker' = "loop"
             /\ \A s \in ps :
                   status[s] = "running"
                     => /\ s \in ps'
                        /\ status'[s] = "running"
                        /\ binding'[s] = binding[s]
                        /\ handle'[s] = handle[s]
                        /\ teardowns'[s] = teardowns[s]
                        /\ \A d \in Datastores :
                              (dslock[d] = s) <=> (dslock'[d] = s)
      ]_vars

\* a terminated session has just been removed while a running session with a
\* live binding stays registered and keeps the slot it holds
Wit_C16 ==
    /\ last.op = "clear"
    /\ last.freed # {}
    /\ pc_worker = "loop"
    /\ \E s \in ps :
          /\ status[s] = "running"
          /\ binding[s] = "live"
          /\ teardowns[s] = 0
          /\ \E d \in Datastores : dslock[d] = s

\* C17: while main is in the global teardown, in server_init or has returned,
\* no worker thread exists; and after a successful server_init main enters
\* the global teardown only from pthread_join, with the accept loop left and
\* the worker returned from its final nc_ps_clear.
Thm_C17 ==
    /\ [](pc_main \in {"cleanup", "init", "done"} => pc_worker = "none")
    /\ [][ (pc_main' = "cleanup" /\ pc_main # "cleanup" /\ init_ok')
            => /\ pc_main = "join"
               /\ pc_worker = "finished"
               /\ pc_worker' = "none"
          ]_vars

\* main is in the global teardown of a run whose server_init succeeded, the
\* worker has drained a registered session and has been joined
Wit_C17 ==
    /\ pc_main = "cleanup"
    /\ init_ok
    /\ pc_worker = "none"
    /\ \E s \in Sessions : status[s] = "freed" /\ teardowns[s] = 1

\* C18: the worker is never in nc_ps_poll with no session registered; with no
\* session registered and the flag at continue the loop test leads to the
\* sleep only, and the sleep leads back to the loop test, neither changing the
\* registered sessions; and a worker that is at the loop test or asleep with
\* no session registered while the flag is not continue leaves the loop.
Thm_C18 ==
    /\ [](pc_worker = "poll" => ps # {})
    /\ [][ /\ (pc_worker = "loop" /\ pc_worker' # "loop"
                 /\ ps = {} /\ control = LOOP_CONTINUE)
                => (pc_worker' = "idle" /\ ps' = ps /\ dslock' = dslock)
           /\ (pc_worker = "idle" /\ pc_worker' # "idle")
                => (pc_worker' = "loop" /\ ps' = ps /\ dslock' = dslock)
         ]_vars
    /\ (Alive /\ pc_worker \in {"loop", "idle"} /\ ps = {}
            /\ control # LOOP_CONTINUE)
          ~> (~Alive \/ pc_worker \in {"drain", "finished", "none"})

\* the worker is asleep with no session registered and a signal has moved the
\* flag away from continue in the meantime
Wit_C18 ==
    /\ Alive
    /\ pc_worker = "idle"
    /\ ps = {}
    /\ control # LOOP_CONTINUE
    /\ last.op = "signal"

\* C19: the flag starts at continue, only a run of signal_handler changes
\* it, and once it is not continue no step sets it to continue again.
Thm_C19 ==
    /\ control = LOOP_CONTINUE
    /\ [][ /\ control' # control => last'.op = "signal"
           /\ control # LOOP_CONTINUE => control' # LOOP_CONTINUE
         ]_vars

\* main is back at the restart label after a run whose server_init succeeded
\* and whose global teardown is complete, with the restart request still in
\* the flag
Wit_C19 ==
    /\ Alive
    /\ pc_main = "init"
    /\ init_ok
    /\ pc_worker = "none"
    /\ control = LOOP_RESTART
    /\ last = NoCall

\* C20: a termination signal delivered while the flag is restart and no
\* termination signal came before sets the flag to stop without ending the
\* process; a restart signal delivered while the flag is stop sets it to
\* restart without ending the process; and at the end of the global teardown
\* main goes back to server_init when the flag is restart and returns ret
\* otherwise.
Thm_C20 ==
    [][ /\ (last'.op = "signal" /\ last'.term
               /\ control = LOOP_RESTART /\ quit = 0)
              => (control' = LOOP_STOP /\ quit' = 1 /\ exit_code' = <<>>)
        /\ (last'.op = "signal" /\ ~last'.term /\ control = LOOP_STOP)
              => (control' = LOOP_RESTART /\ quit' = quit
                    /\ exit_code' = <<>>)
        /\ (pc_main = "cleanup" /\ pc_main' # "cleanup")
              => IF control = LOOP_RESTART
                 THEN pc_main' = "init" /\ exit_code' = <<>>
                 ELSE pc_main' = "done" /\ exit_code' = <<ret>>
      ]_vars

\* main went back to the restart label on a restart request, and the first
\* termination signal has just replaced that request by stop without ending
\* the process
Wit_C20 ==
    /\ Alive
    /\ pc_main = "init"
    /\ init_ok
    /\ last.op = "signal"
    /\ last.term
    /\ control = LOOP_STOP
    /\ quit = 1

\* C6: every reaction of signal_handler follows the transition table: a
\* termination-class signal with the flag at continue sets the flag to stop
\* and does not exit; a termination-class signal with the flag at stop exits
\* with failure status; a restart-class signal sets the flag to restart and
\* does not exit, whatever the flag was.
Thm_C6 ==
    \A e \in seen :
        /\ (e.sig \in TermSignals /\ e.from = LOOP_CONTINUE)
              => Outcome(e) = <<"flag", LOOP_STOP>>
        /\ (e.sig \in TermSignals /\ e.from = LOOP_STOP)
              => Outcome(e) = <<"exit", <<EXIT_FAILURE>>>>
        /\ (e.sig \in RestartSignals)
              => Outcome(e) = <<"flag", LOOP_RESTART>>

\* a restart signal was taken with the flag at continue, then a first
\* termination signal, and a termination signal with the flag at stop ended
\* the process with failure status
Wit_C6 ==
    /\ exit_code = <<EXIT_FAILURE>>
    /\ \E e \in seen : e.sig \in RestartSignals /\ e.from = LOOP_CONTINUE
    /\ \E e \in seen : e.sig \in TermSignals /\ e.from = LOOP_RESTART
    /\ \E e \in seen : e.sig \in TermSignals /\ e.from = LOOP_STOP
                        /\ last.sig = e.sig

\* C7 as claimed: two reactions to the same signal with the same flag value
\* have the same outcome.
CE_C7 ==
    \A a, b \in seen :
        (a.sig = b.sig /\ a.from = b.from) => Outcome(a) = Outcome(b)

\* C7 as amended: two reactions to the same signal with the same value of
\* quit (whether a termination-class signal was received before) have the
\* same outcome, whatever the flag and the earlier restart signals were.
Thm_C7 ==
    \A a, b \in seen :
        (a.sig = b.sig /\ a.q = b.q) => Outcome(a) = Outcome(b)

\* the same termination signal was taken twice with the flag at restart, and
\* the same restart signal with quit set at two different flag values
Wit_C7 ==
    /\ \E a, b \in seen : /\ a.sig = b.sig /\ a.sig \in TermSignals
                           /\ a.from = LOOP_RESTART /\ b.from = LOOP_RESTART
                           /\ a.q # b.q
    /\ \E a, b \in seen : /\ a.sig = b.sig /\ a.sig \in RestartSignals
                           /\ a.q = 1 /\ b.q = 1 /\ a.from # b.from

====
